---- MODULE Spec2Model ----
(***************************************************************************)
(* Model of encrypt.py: a Flask endpoint that parses conf_path, fetches a  *)
(* JSON config from GCS, resolves three secrets, reads a source object,    *)
(* encrypts it with the process-wide GnuPG engine and uploads the result.  *)
(*                                                                         *)
(* Strings are sequences of one-character strings, so that split, lstrip   *)
(* and concatenation are computed as Python computes them.                 *)
(***************************************************************************)
EXTENDS Integers, Sequences, FiniteSets, TLC

\* ------------------------------------------------------------------ bounds
\* Longest conf_path enumerated by the specification SpecPaths.
MaxPathLen == 8

\* Request handlers that may run concurrently (Flask serves each request on
\* its own thread).
Procs == {1, 2}

\* ------------------------------------------------------- string primitives
Min(S) == CHOOSE x \in S : \A y \in S : x <= y

\* str(None), as an f-string renders it
NoneText == <<"N", "o", "n", "e">>

\* Python values that may be a str or None (request args, JSON leaves)
PyStr(s) == <<"str", s>>
PyNone == <<"None">>
IsStr(v) == v[1] = "str"
StrOf(v) == v[2]

\* f"{v}"
Fmt(v) == IF IsStr(v) THEN StrOf(v) ELSE NoneText

\* s.split(c) for a one-character separator c: the list of segments
SplitChar(s, c) ==
    LET seps == {i \in 1..Len(s) : s[i] = c}
        n == Cardinality(seps)
        \* position of the k-th separator; 0 and Len(s) + 1 bound the string
        pos(k) == IF k = 0 THEN 0
                  ELSE IF k = n + 1 THEN Len(s) + 1
                  ELSE CHOOSE i \in seps : Cardinality({j \in seps : j < i}) = k - 1
    IN  [k \in 1..(n + 1) |-> SubSeq(s, pos(k - 1) + 1, pos(k) - 1)]

\* positions at which sep occurs in s (sep non-empty)
Occurrences(s, sep) ==
    {i \in 1..(Len(s) - Len(sep) + 1) : SubSeq(s, i, i + Len(sep) - 1) = sep}

\* s.split(sep, 1) for a non-empty sep: cut at the FIRST occurrence of sep
SplitOnce(s, sep) ==
    IF Occurrences(s, sep) = {}
    THEN <<s>>
    ELSE LET i == Min(Occurrences(s, sep))
         IN  <<SubSeq(s, 1, i - 1), SubSeq(s, i + Len(sep), Len(s))>>

\* s.lstrip(c): every leading c removed
RECURSIVE LStrip(_, _)
LStrip(s, c) ==
    IF s # <<>> /\ Head(s) = c THEN LStrip(Tail(s), c) ELSE s

\* a + b on Python values: TypeError unless both are str
CanConcat(a, b) == IsStr(a) /\ IsStr(b)

\* -------------------------------------------------------------- exceptions
\* An exception value: its type, its message, the strings its message
\* interpolates, and (for the engine) the diagnostic it carries.
NoDiag == [text |-> "", about |-> <<>>]
Exc(type, msg, args) == [type |-> type, msg |-> msg, args |-> args, diag |-> NoDiag]
NoExc == Exc("", "", <<>>)

\* mutant of ParsePath: the container taken one segment too early (index 1)
M_ParsePath_Index1(conf_path) ==
    IF ~IsStr(conf_path)
    THEN [ok |-> FALSE, bucket_name |-> <<>>, conf_file_name |-> <<>>,
          exc |-> Exc("AttributeError", "'NoneType' object has no attribute 'split'", <<>>)]
    ELSE LET s    == StrOf(conf_path)
             segs == SplitChar(s, "/")
         IN  IF Len(segs) < 2
             THEN [ok |-> FALSE, bucket_name |-> <<>>, conf_file_name |-> <<>>,
                   exc |-> Exc("IndexError", "list index out of range", <<>>)]
             ELSE IF segs[2] = <<>>
             THEN [ok |-> FALSE, bucket_name |-> <<>>, conf_file_name |-> <<>>,
                   exc |-> Exc("ValueError", "empty separator", <<>>)]
             ELSE [ok |-> TRUE, bucket_name |-> segs[2],
                   conf_file_name |-> LStrip(SplitOnce(s, segs[2])[2], "/"),
                   exc |-> NoExc]

\* mutant of ParsePath: an empty object key rejected as a path error
M_ParsePath_RejectEmptyKey(conf_path) ==
    IF ~IsStr(conf_path)
    THEN [ok |-> FALSE, bucket_name |-> <<>>, conf_file_name |-> <<>>,
          exc |-> Exc("AttributeError", "'NoneType' object has no attribute 'split'", <<>>)]
    ELSE LET s    == StrOf(conf_path)
             segs == SplitChar(s, "/")
         IN  IF Len(segs) < 3
             THEN [ok |-> FALSE, bucket_name |-> <<>>, conf_file_name |-> <<>>,
                   exc |-> Exc("IndexError", "list index out of range", <<>>)]
             ELSE IF segs[3] = <<>> \/ LStrip(SplitOnce(s, segs[3])[2], "/") = <<>>
             THEN [ok |-> FALSE, bucket_name |-> <<>>, conf_file_name |-> <<>>,
                   exc |-> Exc("ValueError", "empty separator", <<>>)]
             ELSE [ok |-> TRUE, bucket_name |-> segs[3],
                   conf_file_name |-> LStrip(SplitOnce(s, segs[3])[2], "/"),
                   exc |-> NoExc]

\* ------------------------------------------------------------ path parsing
\* conf_path.split("/")[2] then conf_path.split(bucket_name, 1)[1].lstrip('/')
\* [ok, bucket_name, conf_file_name, exc]
ParsePath(conf_path) ==
    IF ~IsStr(conf_path)
    THEN [ok |-> FALSE, bucket_name |-> <<>>, conf_file_name |-> <<>>,
          exc |-> Exc("AttributeError", "'NoneType' object has no attribute 'split'", <<>>)]
    ELSE LET s == StrOf(conf_path)
             Parsed3(segs) ==
                 IF Len(segs) < 3
                 THEN [ok |-> FALSE, bucket_name |-> <<>>, conf_file_name |-> <<>>,
                       exc |-> Exc("IndexError", "list index out of range", <<>>)]
                 ELSE IF segs[3] = <<>>
                 THEN [ok |-> FALSE, bucket_name |-> <<>>, conf_file_name |-> <<>>,
                       exc |-> Exc("ValueError", "empty separator", <<>>)]
                 ELSE [ok |-> TRUE, bucket_name |-> segs[3],
                       conf_file_name |-> LStrip(SplitOnce(s, segs[3])[2], "/"),
                       exc |-> NoExc]
         \* segs is the one list conf_path.split("/") of the two statements
         IN  CHOOSE r \in {Parsed3(segs) : segs \in {SplitChar(s, "/")}} : TRUE

\* ------------------------------------------------------ the outside world
\* The object store, the secret store and the engine's key parser are
\* external collaborators; the model fixes a small world for them.
Fields == <<"gpg_public_key", "gcs_bucket", "recipient_name",
            "file_name", "file_path", "encrypted_file_path">>
FieldSet == {Fields[i] : i \in 1..Len(Fields)}
Digit == <<"1", "2", "3", "4", "5", "6">>

ConfBucket == <<"c">>
DataBucket == <<"d">>

\* public key material, and the user id the engine reads out of it
KeyMat1 == <<"P", "1">>
KeyMat2 == <<"P", "2">>
BadKeyMat == <<"X", "X">>
Rcpt1 == <<"r", "1">>
Rcpt2 == <<"r", "2">>
ValidKeyMaterial == {KeyMat1, KeyMat2}
KeyUid(m) == IF m = KeyMat1 THEN Rcpt1 ELSE Rcpt2

\* secret ids
SecKey1 == <<"k", "1">>
SecKey2 == <<"k", "2">>
SecBadKey == <<"k", "x">>
SecBucket == <<"s", "b">>
SecRcpt1 == <<"s", "1">>
SecRcpt2 == <<"s", "2">>
SecretIds == {SecKey1, SecKey2, SecBadKey, SecBucket, SecRcpt1, SecRcpt2}

\* latest version of each secret
SecretPayload(id) ==
    CASE id = SecKey1 -> KeyMat1
      [] id = SecKey2 -> KeyMat2
      [] id = SecBadKey -> BadKeyMat
      [] id = SecBucket -> DataBucket
      [] id = SecRcpt1 -> Rcpt1
      [] id = SecRcpt2 -> Rcpt2

\* stored object contents
Obj(fields) == <<"obj", fields>>       \* a JSON object
Text(t) == <<"text", t>>               \* text that is no JSON object
Cipher(data, key) == <<"cipher", data, key>>   \* armored ciphertext
NoContent == <<"none">>

CfgA == [gpg_public_key |-> PyStr(SecKey1), gcs_bucket |-> PyStr(SecBucket),
         recipient_name |-> PyStr(SecRcpt1), file_name |-> PyStr(<<"f">>),
         file_path |-> PyStr(<<"i", "/">>),
         encrypted_file_path |-> PyStr(<<"o", "/">>)]
CfgB == [CfgA EXCEPT !.gpg_public_key = PyStr(SecKey2),
                     !.recipient_name = PyStr(SecRcpt2),
                     !.file_name = PyStr(<<"g">>)]
\* key material that does not import, for the recipient of CfgA
CfgBadKey == [CfgA EXCEPT !.gpg_public_key = PyStr(SecBadKey)]
\* source object absent
CfgNoSource == [CfgA EXCEPT !.file_name = PyStr(<<"z">>)]
\* file_path + file_name and encrypted_file_path + file_name + ".asc" spell
\* the same object name, ".asc.asc"
CfgOverwrite == [CfgA EXCEPT !.file_name = PyStr(<<".", "a", "s", "c">>),
                             !.file_path = PyStr(<<".", "a", "s", "c">>),
                             !.encrypted_file_path = PyStr(<<>>)]
CfgMissing(i) == [f \in FieldSet \ {Fields[i]} |-> CfgA[f]]
\* two fields absent
CfgMissingTwo == [f \in FieldSet \ {"recipient_name", "file_path"} |-> CfgA[f]]
CfgNull(i) == [CfgA EXCEPT ![Fields[i]] = PyNone]

Key(bucket, path) == <<bucket, path>>

ConfigObjects ==
    {<<Key(ConfBucket, <<"a">>), Obj(CfgA)>>,
     <<Key(ConfBucket, <<"b">>), Obj(CfgB)>>,
     <<Key(ConfBucket, <<"g">>), Obj(CfgBadKey)>>,
     <<Key(ConfBucket, <<"x">>), Obj(CfgNoSource)>>,
     <<Key(ConfBucket, <<"w">>), Obj(CfgOverwrite)>>,
     <<Key(ConfBucket, <<"m", "m">>), Obj(CfgMissingTwo)>>,
     <<Key(ConfBucket, <<"j">>), Text(<<"n", "o", "t", "j", "s", "o", "n">>)>>}
    \cup {<<Key(ConfBucket, <<"m", Digit[i]>>), Obj(CfgMissing(i))>> : i \in 1..6}
    \cup {<<Key(ConfBucket, <<"n", Digit[i]>>), Obj(CfgNull(i))>> : i \in 1..6}

DataObjects ==
    {<<Key(DataBucket, <<"i", "/", "f">>), Text(<<"T", "1">>)>>,
     <<Key(DataBucket, <<"i", "/", "g">>), Text(<<"T", "2">>)>>,
     <<Key(DataBucket, <<".", "a", "s", "c", ".", "a", "s", "c">>),
       Text(<<"T", "3">>)>>}

InitialObjects == ConfigObjects \cup DataObjects
InitialStore ==
    [k \in {o[1] : o \in InitialObjects} |->
        (CHOOSE o \in InitialObjects : o[1] = k)[2]]

\* ---------------------------------------------------------------- requests
Gs == <<"g", "s", ":", "/", "/">>
GsPath(bucket, key) == Gs \o bucket \o <<"/">> \o key

\* conf_path values the endpoint is driven with
ConfPaths ==
    {PyStr(GsPath(k[1], k[2])) : k \in {o[1] : o \in ConfigObjects}}
    \cup {PyStr(GsPath(ConfBucket, <<"a", "/", "q">>)),  \* no such config object
          PyStr(Gs \o ConfBucket),                 \* gs://c
          PyStr(Gs \o ConfBucket \o <<"/">>),     \* gs://c/
          PyStr(<<"c", "/", "a">>),                \* two segments
          PyStr(<<>>),                             \* empty string
          PyStr(Gs \o <<"/", "a">>),               \* gs:///a, empty container
          PyStr(<<"c", ":", "/", "/", "c", "/", "a">>),  \* c://c/a
          PyNone}                                  \* no conf_path parameter

\* every string over the path alphabet up to MaxPathLen
PathAlphabet == {"/", ":", "a", "c"}
AllPaths == UNION {[1..n -> PathAlphabet] : n \in 0..MaxPathLen}

\* ------------------------------------------------------------------- state
VARIABLES
    pc,        \* pc[p]: where handler p stands in encrypt()
    request,   \* request[p]: request.args.get('conf_path') of p's request
    frame,     \* frame[p]: the local variables of encrypt() in handler p
    resp,      \* resp[p]: the response p returned
    calls,     \* calls[p]: the external calls p made, in order
    store,     \* the object store: (bucket, path) -> contents
    keyring,   \* key material held by the process-wide gpg engine
    log        \* log entries emitted so far

vars == <<pc, request, frame, resp, calls, store, keyring, log>>

NoConf == [f \in {} |-> PyNone]
NoResult == [ok |-> FALSE, stderr |-> NoDiag, data |-> NoContent]
EmptyFrame ==
    [bucket_name |-> <<>>, conf_file_name |-> <<>>, conf |-> NoConf,
     gpg_public_key |-> <<>>, gcs_bucket |-> <<>>, recipient_name |-> <<>>,
     file_name |-> PyNone, file_path |-> PyNone, encrypted_file_path |-> PyNone,
     data_to_encrypt |-> NoContent, encrypted_data |-> NoResult]

\* --------------------------------------------------------------- responses
NoResponse == [status |-> 0, kind |-> "none", text |-> "", exc |-> NoExc]
\* jsonify({"error": f"<text>{e}"}), status
ErrorResponse(status, text, e) ==
    [status |-> status, kind |-> "error", text |-> text, exc |-> e]
\* jsonify({"message": ...}) with Flask's default status
SuccessResponse ==
    [status |-> 200, kind |-> "message",
     text |-> "Success, file was encrypted and stored in GCS.", exc |-> NoExc]

\* mutant of PathErrorResponse: a path error answered as a server error
M_PathErrorResponse_500(e) == ErrorResponse(500, "Invalid configuration path: ", e)

PathErrorResponse(e) == ErrorResponse(400, "Invalid configuration path: ", e)
\* mutant of ConfigErrorResponse: configuration failures answered as client errors
M_ConfigErrorResponse_400(e) ==
    ErrorResponse(400, "Failed to fetch configuration or secrets: ", e)

ConfigErrorResponse(e) ==
    ErrorResponse(500, "Failed to fetch configuration or secrets: ", e)
EncryptErrorResponse(e) == ErrorResponse(500, "Encryption failed: ", e)
StoreErrorResponse(e) == ErrorResponse(500, "Failed to store encrypted file: ", e)

\* -------------------------------------------------------------------- logs
Info(msg, args) == [level |-> "INFO", msg |-> msg, args |-> args, exc |-> NoExc]
Error(msg, args, e) == [level |-> "ERROR", msg |-> msg, args |-> args, exc |-> e]

\* ---------------------------------------------------------- external calls
Call(op, args, ok) == [op |-> op, args |-> args, ok |-> ok]

\* mutant of Download: an absent object read as empty text instead of raising
M_Download_EmptyWhenAbsent(st, bucket, path, fail) ==
    IF fail
    THEN [ok |-> FALSE, content |-> NoContent,
          exc |-> Exc("ServiceUnavailable", "503", <<bucket, path>>)]
    ELSE IF Key(bucket, path) \notin DOMAIN st
    THEN [ok |-> TRUE, content |-> Text(<<>>), exc |-> NoExc]
    ELSE [ok |-> TRUE, content |-> st[Key(bucket, path)], exc |-> NoExc]

\* blob.download_as_text(): the contents, or the backend's failure
Download(st, bucket, path, fail) ==
    IF fail
    THEN [ok |-> FALSE, content |-> NoContent,
          exc |-> Exc("ServiceUnavailable", "503", <<bucket, path>>)]
    ELSE IF Key(bucket, path) \notin DOMAIN st
    THEN [ok |-> FALSE, content |-> NoContent,
          exc |-> Exc("NotFound", "404 No such object", <<bucket, path>>)]
    ELSE [ok |-> TRUE, content |-> st[Key(bucket, path)], exc |-> NoExc]

\* mutant of Upload: the write is acknowledged but the object is not stored
M_Upload_Lost(st, bucket, path, payload) == st

\* mutant of Upload: bucket and object name taken in the wrong order
M_Upload_SwappedKey(st, bucket, path, payload) ==
    [k \in DOMAIN st \cup {Key(path, bucket)} |->
        IF k = Key(path, bucket) THEN payload ELSE st[k]]

\* blob.upload_from_string(payload): whole-object write
Upload(st, bucket, path, payload) ==
    [k \in DOMAIN st \cup {Key(bucket, path)} |->
        IF k = Key(bucket, path) THEN payload ELSE st[k]]

VersionSuffix == <<"/", "v", "e", "r", "s", "i", "o", "n", "s",
                   "/", "l", "a", "t", "e", "s", "t">>
\* f"{secret_id}/versions/latest"
SecretName(secret_id) == Fmt(secret_id) \o VersionSuffix

\* client.access_secret_version(...).payload.data.decode("UTF-8")
AccessSecret(secret_name, fail) ==
    IF fail
    THEN [ok |-> FALSE, data |-> <<>>,
          exc |-> Exc("ServiceUnavailable", "503", <<secret_name>>)]
    ELSE IF \E id \in SecretIds : secret_name = id \o VersionSuffix
    THEN [ok |-> TRUE,
          data |-> SecretPayload(CHOOSE id \in SecretIds : secret_name = id \o VersionSuffix),
          exc |-> NoExc]
    ELSE [ok |-> FALSE, data |-> <<>>,
          exc |-> Exc("NotFound", "404 Secret not found", <<secret_name>>)]

\* gpg.import_keys(material): the keyring afterwards; material that does not
\* parse as a key imports nothing and raises nothing
ImportKeys(kr, material) ==
    IF material \in ValidKeyMaterial THEN kr \cup {material} ELSE kr

\* keys of the keyring the engine may pick for a recipient
KeysFor(kr, recipient) == {k \in kr : KeyUid(k) = recipient}

\* gpg.encrypt(data, recipients=[recipient], always_trust=True) using key k
GpgEncrypt(kr, data, recipient, k, engine_ok) ==
    IF KeysFor(kr, recipient) = {}
    THEN [ok |-> FALSE,
          stderr |-> [text |-> "gpg: skipped: No public key", about |-> recipient],
          data |-> NoContent]
    ELSE IF ~engine_ok
    THEN [ok |-> FALSE,
          stderr |-> [text |-> "gpg: encryption failed", about |-> recipient],
          data |-> NoContent]
    ELSE [ok |-> TRUE, stderr |-> NoDiag, data |-> Cipher(data, k)]

\* mutant of EncryptionFailed: the ValueError raised without the engine's stderr
M_EncryptionFailed_NoDiag(stderr) == Exc("ValueError", "Encryption failed", <<>>)

\* raise ValueError(f"Encryption failed: {encrypted_data.stderr}")
EncryptionFailed(stderr) ==
    [type |-> "ValueError", msg |-> "Encryption failed: ", args |-> <<>>,
     diag |-> stderr]

\* json.loads(conf_details): a dict, or a failure for text that is no object
JsonLoads(content) ==
    IF content[1] = "obj"
    THEN [ok |-> TRUE, conf |-> content[2], exc |-> NoExc]
    ELSE [ok |-> FALSE, conf |-> NoConf,
          exc |-> Exc("JSONDecodeError", "Expecting value", <<>>)]

KeyError(field) == Exc("KeyError", field, <<>>)

\* mutant of Lookup: conf.get(field), None for a field the dict does not have
M_Lookup_Get(conf, field) ==
    [ok |-> TRUE,
     value |-> IF field \in DOMAIN conf THEN conf[field] ELSE PyNone,
     exc |-> NoExc]

\* mutant of Lookup: a null value rejected like an absent field
M_Lookup_RejectNull(conf, field) ==
    IF field \in DOMAIN conf /\ IsStr(conf[field])
    THEN [ok |-> TRUE, value |-> conf[field], exc |-> NoExc]
    ELSE [ok |-> FALSE, value |-> PyNone, exc |-> KeyError(field)]

\* conf[field]: the value, or KeyError for a field the dict does not have
Lookup(conf, field) ==
    IF field \in DOMAIN conf
    THEN [ok |-> TRUE, value |-> conf[field], exc |-> NoExc]
    ELSE [ok |-> FALSE, value |-> PyNone, exc |-> KeyError(field)]

\* mutant of AfterSecret: recipient_name resolved before gcs_bucket
M_AfterSecret_Swapped(field) ==
    CASE field = "gpg_public_key" -> "secret_recipient_name"
      [] field = "recipient_name" -> "secret_gcs_bucket"
      [] field = "gcs_bucket" -> "fields"

\* the statement that follows <target> = fetch_secret(conf[field])
AfterSecret(field) ==
    CASE field = "gpg_public_key" -> "secret_gcs_bucket"
      [] field = "gcs_bucket" -> "secret_recipient_name"
      [] field = "recipient_name" -> "fields"
TypeError == Exc("TypeError", "can only concatenate str (not NoneType) to str", <<>>)

\* ----------------------------------------------------------------- actions
Init ==
    /\ pc = [p \in Procs |-> "idle"]
    /\ request = [p \in Procs |-> PyNone]
    /\ frame = [p \in Procs |-> EmptyFrame]
    /\ resp = [p \in Procs |-> NoResponse]
    /\ calls = [p \in Procs |-> <<>>]
    /\ store = InitialStore
    /\ keyring = {}
    /\ log = {}

\* mutant of Return: the response is built but the handler never returns it
M_Return_Hangs(p, r, entries) ==
    /\ pc' = [pc EXCEPT ![p] = "returning"]
    /\ resp' = [resp EXCEPT ![p] = r]
    /\ log' = log \cup entries

\* return jsonify(...), status: the handler ends
Return(p, r, entries) ==
    /\ pc' = [pc EXCEPT ![p] = "done"]
    /\ resp' = [resp EXCEPT ![p] = r]
    /\ log' = log \cup entries

Goto(p, label, entries) ==
    /\ pc' = [pc EXCEPT ![p] = label]
    /\ log' = log \cup entries
    /\ UNCHANGED resp

Record(p, c) == calls' = [calls EXCEPT ![p] = Append(@, c)]

\* GET /encryption?conf_path=...  (conf_path = request.args.get('conf_path'))
Receive(p, conf_path) ==
    /\ pc[p] = "idle"
    /\ request' = [request EXCEPT ![p] = conf_path]
    /\ pc' = [pc EXCEPT ![p] = "parse"]
    /\ UNCHANGED <<frame, resp, calls, store, keyring, log>>

\* encrypt(), first try block
ParseConfPath(p) ==
    /\ pc[p] = "parse"
    /\ \E r \in {ParsePath(request[p])} :
        LET conf_path == request[p]
            reading == Info("Reading config file from path: ", <<Fmt(conf_path)>>)
        IN  IF r.ok
            THEN /\ frame' = [frame EXCEPT ![p].bucket_name = r.bucket_name,
                                           ![p].conf_file_name = r.conf_file_name]
                 /\ Goto(p, "fetch_conf", {reading})
            ELSE /\ Return(p, PathErrorResponse(r.exc),
                           {reading,
                            Error("Invalid configuration path: ", <<Fmt(conf_path)>>, r.exc)})
                 /\ UNCHANGED frame
    /\ UNCHANGED <<request, calls, store, keyring>>

\* conf_details = fetch_conf_details(bucket_name, conf_file_name)
\* conf = json.loads(conf_details)
FetchConfDetails(p) ==
    /\ pc[p] = "fetch_conf"
    /\ \E fail \in BOOLEAN :
        LET bucket_name == frame[p].bucket_name
            conf_file_name == frame[p].conf_file_name
            d == Download(store, bucket_name, conf_file_name, fail)
            j == JsonLoads(d.content)
            reading == Info("Reading config file from GCS: ", <<conf_file_name>>)
            done == Info("Successfully read config file: ", <<conf_file_name>>)
        IN  /\ Record(p, Call("config_fetch", <<bucket_name, conf_file_name>>, d.ok))
            /\ IF ~d.ok
               THEN /\ Return(p, ConfigErrorResponse(d.exc),
                              {reading,
                               Error("Failed to read config file: ", <<conf_file_name>>, d.exc),
                               Error("Failed to fetch configuration or secrets.", <<>>, d.exc)})
                    /\ UNCHANGED frame
               ELSE IF ~j.ok
               THEN /\ Return(p, ConfigErrorResponse(j.exc),
                              {reading, done,
                               Error("Failed to fetch configuration or secrets.", <<>>, j.exc)})
                    /\ UNCHANGED frame
               ELSE /\ frame' = [frame EXCEPT ![p].conf = j.conf]
                    /\ Goto(p, "secret_gpg_public_key", {reading, done})
    /\ UNCHANGED <<request, store, keyring>>

\* <target> = fetch_secret(conf[field])
FetchSecret(p, field) ==
    /\ pc[p] = "secret_" \o field
    /\ \E fail \in BOOLEAN :
        LET l == Lookup(frame[p].conf, field)
        IN  IF ~l.ok
            THEN /\ Return(p, ConfigErrorResponse(l.exc),
                           {Error("Failed to fetch configuration or secrets.", <<>>, l.exc)})
                 /\ UNCHANGED <<frame, calls>>
            ELSE LET secret_id == l.value
                     a == AccessSecret(SecretName(secret_id), fail)
                 IN  /\ Record(p, Call("secret", <<SecretName(secret_id)>>, a.ok))
                     /\ IF a.ok
                        THEN /\ frame' = [frame EXCEPT ![p][field] = a.data]
                             /\ Goto(p, AfterSecret(field),
                                     {Info("Successfully fetched secret: ", <<Fmt(secret_id)>>)})
                        ELSE /\ Return(p, ConfigErrorResponse(a.exc),
                                       {Error("Failed to fetch secret for key: ",
                                              <<Fmt(secret_id)>>, a.exc),
                                        Error("Failed to fetch configuration or secrets.",
                                              <<>>, a.exc)})
                             /\ UNCHANGED frame
    /\ UNCHANGED <<request, store, keyring>>

\* file_name = conf['file_name']; file_path = conf['file_path'];
\* encrypted_file_path = conf['encrypted_file_path']
ReadFields(p) ==
    /\ pc[p] = "fields"
    /\ LET conf == frame[p].conf
           l(f) == Lookup(conf, f)
           absent == {i \in 4..6 : ~l(Fields[i]).ok}
       IN  IF absent # {}
           THEN /\ Return(p, ConfigErrorResponse(l(Fields[Min(absent)]).exc),
                          {Error("Failed to fetch configuration or secrets.", <<>>,
                                 l(Fields[Min(absent)]).exc)})
                /\ UNCHANGED frame
           ELSE /\ frame' = [frame EXCEPT
                                ![p].file_name = l("file_name").value,
                                ![p].file_path = l("file_path").value,
                                ![p].encrypted_file_path = l("encrypted_file_path").value]
                /\ Goto(p, "read", {})
    /\ UNCHANGED <<request, calls, store, keyring>>

\* mutant of AscSuffix: another extension for the encrypted object
M_AscSuffix_Gpg == <<".", "g", "p", "g">>

AscSuffix == <<".", "a", "s", "c">>

\* read_and_encrypt_data, first try block: blob(file_path + file_name).download_as_text()
ReadSource(p) ==
    /\ pc[p] = "read"
    /\ \E fail \in BOOLEAN :
        LET bucket_name == frame[p].gcs_bucket
            file_name == frame[p].file_name
            file_path == frame[p].file_path
            failed(e) ==
                Return(p, EncryptErrorResponse(e),
                       {Error("Failed to read file from bucket: ",
                              <<Fmt(file_name), bucket_name>>, e),
                        Error("Failed during encryption.", <<>>, e)})
        IN  IF ~CanConcat(file_path, file_name)
            THEN /\ failed(TypeError)
                 /\ UNCHANGED <<frame, calls>>
            ELSE LET path == StrOf(file_path) \o StrOf(file_name)
                     d == Download(store, bucket_name, path, fail)
                 IN  /\ Record(p, Call("read", <<bucket_name, path>>, d.ok))
                     /\ IF d.ok
                        THEN /\ frame' = [frame EXCEPT ![p].data_to_encrypt = d.content]
                             /\ Goto(p, "import",
                                     {Info("Successfully read file from bucket: ",
                                           <<Fmt(file_name), bucket_name>>)})
                        ELSE /\ failed(d.exc)
                             /\ UNCHANGED frame
    /\ UNCHANGED <<request, store, keyring>>

\* mutant of EncryptionStageFailed: the exception is logged and swallowed
M_EncryptionStageFailed_Swallowed(p, e) ==
    Goto(p, "write", {Error("Failed to encrypt data.", <<>>, e)})

\* mutant of EncryptionStageFailed: the stage is run again after a failure
M_EncryptionStageFailed_Retry(p, e) ==
    Goto(p, "import", {Error("Failed to encrypt data.", <<>>, e)})

\* the except clause of read_and_encrypt_data's second try block, then encrypt()'s
EncryptionStageFailed(p, e) ==
    Return(p, EncryptErrorResponse(e),
           {Error("Failed to encrypt data.", <<>>, e),
            Error("Failed during encryption.", <<>>, e)})

\* gpg.import_keys(gpg_public_key); its result is not looked at
GpgImportKeys(p) ==
    /\ pc[p] = "import"
    /\ \E raises \in BOOLEAN :
        LET material == frame[p].gpg_public_key
        IN  /\ Record(p, Call("import", <<material>>, ~raises))
            /\ IF raises
               THEN /\ EncryptionStageFailed(p, Exc("OSError", "gpg process failed", <<>>))
                    /\ UNCHANGED keyring
               ELSE /\ keyring' = ImportKeys(keyring, material)
                    /\ Goto(p, "encrypt", {})
    /\ UNCHANGED <<request, frame, store>>

\* encrypted_data = gpg.encrypt(...); if not encrypted_data.ok: raise ValueError
GpgEncryptData(p) ==
    /\ pc[p] = "encrypt"
    /\ LET recipient_name == frame[p].recipient_name
           cands == KeysFor(keyring, recipient_name)
       IN  \E engine_ok \in BOOLEAN, k \in (IF cands = {} THEN {<<>>} ELSE cands) :
            LET r == GpgEncrypt(keyring, frame[p].data_to_encrypt, recipient_name,
                                k, engine_ok)
            IN  /\ Record(p, Call("encrypt", <<recipient_name>>, r.ok))
                /\ frame' = [frame EXCEPT ![p].encrypted_data = r]
                /\ IF r.ok
                   THEN Goto(p, "write", {Info("Encryption successful", <<>>)})
                   ELSE EncryptionStageFailed(p, EncryptionFailed(r.stderr))
    /\ UNCHANGED <<request, store, keyring>>

\* upload_encrypted_data(gcs_bucket, encrypted_data, encrypted_file_path, file_name)
\* and the return of the success message
UploadEncryptedData(p) ==
    /\ pc[p] = "write"
    /\ \E fail \in BOOLEAN :
        LET bucket_name == frame[p].gcs_bucket
            file_name == frame[p].file_name
            encrypted_file_path == frame[p].encrypted_file_path
            failed(e) ==
                Return(p, StoreErrorResponse(e),
                       {Error("Failed to upload encrypted data to GCS.", <<>>, e),
                        Error("Failed to store encrypted file.", <<>>, e)})
        IN  IF ~CanConcat(encrypted_file_path, file_name)
            THEN /\ failed(TypeError)
                 /\ UNCHANGED <<calls, store>>
            ELSE LET path == StrOf(encrypted_file_path) \o StrOf(file_name) \o AscSuffix
                 IN  /\ Record(p, Call("write", <<bucket_name, path>>, ~fail))
                     /\ IF fail
                        THEN /\ failed(Exc("ServiceUnavailable", "503", <<bucket_name, path>>))
                             /\ UNCHANGED store
                        ELSE /\ store' = Upload(store, bucket_name, path,
                                                frame[p].encrypted_data.data)
                             /\ Return(p, SuccessResponse,
                                       {Info("Encrypted file stored to GCS bucket successfully!",
                                             <<>>)})
    /\ UNCHANGED <<request, frame, keyring>>

\* a request arrives with one of the conf_path values of the model's world
ReceiveRequest(p) == pc[p] = "idle" /\ \E conf_path \in ConfPaths : Receive(p, conf_path)

\* the statements of encrypt(), one external call at a time
Pipeline(p) ==
    \/ ParseConfPath(p)
    \/ FetchConfDetails(p)
    \/ FetchSecret(p, "gpg_public_key")
    \/ FetchSecret(p, "gcs_bucket")
    \/ FetchSecret(p, "recipient_name")
    \/ ReadFields(p)
    \/ ReadSource(p)
    \/ GpgImportKeys(p)
    \/ GpgEncryptData(p)
    \/ UploadEncryptedData(p)

Step(p) == ReceiveRequest(p) \/ Pipeline(p)

Next == \E p \in Procs : Step(p)

Spec == Init /\ [][Next]_vars

\* ------------------------------------------------- every conf_path string
\* One handler is driven with every string over PathAlphabet up to MaxPathLen
\* and runs encrypt() on it.
ReceiveAny(p) == pc[p] = "idle" /\ \E s \in AllPaths : Receive(p, PyStr(s))
NextPaths == ReceiveAny(1) \/ Pipeline(1)
SpecPaths == Init /\ [][NextPaths]_vars

\* ============================================================== properties
Done(p) == pc[p] = "done"
Status(p) == resp[p].status
Ops(p) == [i \in 1..Len(calls[p]) |-> calls[p][i].op]
Made(p, op) == \E i \in 1..Len(calls[p]) : calls[p][i].op = op
Completed(p, op) == \E i \in 1..Len(calls[p]) : calls[p][i].op = op /\ calls[p][i].ok
HasFailedCall(p) == \E i \in 1..Len(calls[p]) : ~calls[p][i].ok
Failed(p) == Done(p) /\ Status(p) \in {400, 500}

\* the object the write stage of p addresses, once p's locals are strings
Destination(p) ==
    Key(frame[p].gcs_bucket,
        StrOf(frame[p].encrypted_file_path) \o StrOf(frame[p].file_name) \o AscSuffix)

PipelineOrder ==
    <<"config_fetch", "secret", "secret", "secret", "read", "import", "encrypt", "write">>

\* C1: an invocation ends in Success exactly with a completed destination
\* write of its own: the step that returns Success is the step that puts the
\* invocation's ciphertext at its destination, the store changes in no other
\* step, and an invocation that ended in a failure has completed no write.
C1_AllOrNothing ==
    [][/\ \A p \in Procs :
            /\ (Status(p) = 0 /\ Status(p)' = 200) =>
                    /\ Completed(p, "write")'
                    /\ Destination(p) \in DOMAIN store'
                    /\ store'[Destination(p)] = frame[p].encrypted_data.data
                    /\ frame[p].encrypted_data.ok
            /\ Status(p)' = 200 => Completed(p, "write")'
            /\ Failed(p)' => ~Completed(p, "write")'
            /\ Completed(p, "write")' => Status(p)' = 200
       /\ store' # store =>
            \E p \in Procs : Status(p) = 0 /\ Status(p)' = 200]_vars

\* C1 witness: one invocation has succeeded and its ciphertext is stored,
\* another has failed at the write stage and stored nothing
C1_Witness ==
    /\ Status(1) = 200 /\ Completed(1, "write")
    /\ store[Destination(1)] = frame[1].encrypted_data.data
    /\ Failed(2) /\ Made(2, "write") /\ ~Completed(2, "write")

PathParsingFailed(p) == ~ParsePath(request[p]).ok
EveryStageCompleted(p) ==
    /\ Ops(p) = PipelineOrder
    /\ \A i \in 1..Len(calls[p]) : calls[p][i].ok

\* C2: an invocation returns one response, when it ends and not before, and
\* its status follows the stage outcome: 400 with an error body iff path
\* parsing failed, 200 with the success message iff every stage completed,
\* 500 with an error body iff a stage after path parsing failed.
C2_StatusByStage ==
    \A p \in Procs :
        /\ ~Done(p) => resp[p] = NoResponse
        /\ Done(p) =>
            /\ Status(p) \in {200, 400, 500}
            /\ Status(p) = 400 <=> PathParsingFailed(p)
            /\ Status(p) = 200 <=> EveryStageCompleted(p)
            /\ Status(p) = 500 <=> (~PathParsingFailed(p) /\ ~EveryStageCompleted(p))
            /\ Status(p) \in {400, 500} =>
                    resp[p].kind = "error" /\ resp[p].exc # NoExc
            /\ Status(p) = 200 => resp[p] = SuccessResponse
            /\ Status(p) = 400 => resp[p] = PathErrorResponse(ParsePath(request[p]).exc)
            /\ Status(p) = 500 =>
                    resp[p].text \in {"Failed to fetch configuration or secrets: ",
                                      "Encryption failed: ",
                                      "Failed to store encrypted file: "}

\* C2 witness: a 400 and a 500 response side by side (a 200 is in C1's witness)
C2_Witness ==
    /\ Done(1) /\ Status(1) = 400 /\ PathParsingFailed(1)
    /\ Done(2) /\ Status(2) = 500 /\ HasFailedCall(2)

LastCall(p) == calls[p][Len(calls[p])]

\* C3: a failed external call is the last call of its invocation and leaves
\* it Failed with status 500; an invocation that has ended makes no further
\* call and changes neither its state nor its response.
C3_FailureShortCircuits ==
    [][\A p \in Procs :
        /\ HasFailedCall(p)' =>
            /\ Failed(p)' /\ Status(p)' = 500
            /\ \A i \in 1..Len(calls'[p]) : ~calls'[p][i].ok => i = Len(calls'[p])
        /\ Done(p) =>
            /\ pc'[p] = "done"
            /\ calls'[p] = calls[p]
            /\ resp'[p] = resp[p]
            /\ frame'[p] = frame[p]]_vars

\* C3 witness: one invocation failed at the encrypt call, the other at its
\* second secret resolution, and each made no call after the failed one
C3_Witness ==
    /\ Failed(1) /\ calls[1] # <<>>
    /\ LastCall(1).op = "encrypt" /\ ~LastCall(1).ok
    /\ Failed(2) /\ Len(calls[2]) = 3
    /\ LastCall(2).op = "secret" /\ ~LastCall(2).ok

IsPrefix(s, t) == Len(s) <= Len(t) /\ s = SubSeq(t, 1, Len(s))

\* C4: the external calls of an invocation are a prefix of: config fetch,
\* secret gpg_public_key, secret gcs_bucket, secret recipient_name, source
\* read, key import, encrypt, destination write; a successful invocation has
\* made all eight.
C4_FixedCallOrder ==
    \A p \in Procs :
        /\ IsPrefix(Ops(p), PipelineOrder)
        /\ \A i \in 2..4 :
                i <= Len(calls[p]) =>
                    calls[p][i].args = <<SecretName(frame[p].conf[Fields[i - 1]])>>
        /\ Status(p) = 200 => Ops(p) = PipelineOrder

\* C4 witness: a successful invocation with all eight calls made, beside an
\* invocation that is part of the way through
C4_Witness ==
    /\ Status(1) = 200 /\ Ops(1) = PipelineOrder
    /\ pc[2] = "import" /\ Len(calls[2]) = 5

\* ------------------------------------------------ the shape of a conf_path
\* Stated on character positions, without the operators that model the code.
Slashes(s) == {i \in 1..Len(s) : s[i] = "/"}
NameChars(s, a, b) == \A i \in a..b : s[i] \notin {"/", ":"}

\* s begins <scheme>://<container>: a non-empty scheme and a non-empty
\* container, neither holding '/' or ':'; the container ends before position j
StartsSchemeContainer(s, i, j) ==
    /\ 2 <= i /\ i + 3 < j /\ j <= Len(s) + 1
    /\ NameChars(s, 1, i - 1)
    /\ s[i] = ":" /\ s[i + 1] = "/" /\ s[i + 2] = "/"
    /\ NameChars(s, i + 3, j - 1)
    /\ (j <= Len(s) => s[j] = "/")

\* <scheme>://<container>/<k1>/.../<kn>, n >= 1, every ki non-empty
WellFormedAt(s, i, j) ==
    /\ StartsSchemeContainer(s, i, j)
    /\ j < Len(s)
    /\ s[j + 1] # "/" /\ s[Len(s)] # "/"
    /\ \A k \in (j + 1)..(Len(s) - 1) : ~(s[k] = "/" /\ s[k + 1] = "/")
WellFormed(s) == \E i, j \in 1..(Len(s) + 1) : WellFormedAt(s, i, j)

\* <scheme>://<container> followed by nothing but slashes
NoKeyAt(s, i, j) ==
    /\ StartsSchemeContainer(s, i, j)
    /\ \A k \in j..Len(s) : s[k] = "/"
NoKeySegment(s) == \E i, j \in 1..(Len(s) + 1) : NoKeyAt(s, i, j)

ContainerOf(s) ==
    LET ij == CHOOSE ij \in (1..(Len(s) + 1)) \X (1..(Len(s) + 1)) :
                  StartsSchemeContainer(s, ij[1], ij[2])
    IN  SubSeq(s, ij[1] + 3, ij[2] - 1)
SchemeOf(s) == SubSeq(s, 1, Min({i \in 1..Len(s) : s[i] = ":"}) - 1)
KeyOf(s) ==
    LET ij == CHOOSE ij \in (1..(Len(s) + 1)) \X (1..(Len(s) + 1)) :
                  StartsSchemeContainer(s, ij[1], ij[2])
    IN  SubSeq(s, ij[2] + 1, Len(s))

\* fewer than three '/'-delimited segments
FewSegments(s) == Cardinality(Slashes(s)) < 2
\* the third segment exists and is empty
ThirdSegmentEmpty(s) ==
    /\ Cardinality(Slashes(s)) >= 2
    /\ LET q == Min(Slashes(s) \ {Min(Slashes(s))})
       IN  q = Len(s) \/ s[q + 1] = "/"

Parsed(p) == pc[p] \notin {"idle", "parse"}
Path(p) == StrOf(request[p])

\* C5 (as claimed): for every well-formed scheme://container/k1/.../kn path
\* parsing yields the container and the object key k1/.../kn.
C5_WellFormedParses ==
    \A p \in Procs :
        (Parsed(p) /\ IsStr(request[p]) /\ WellFormed(Path(p))) =>
            /\ Status(p) # 400
            /\ frame[p].bucket_name = ContainerOf(Path(p))
            /\ frame[p].conf_file_name = KeyOf(Path(p))

\* C6: a conf_path with fewer than three '/'-delimited segments is answered
\* 400 with a path-parsing error and no external call; any 400 response
\* comes from an invocation that made no external call.
C6_FewSegmentsRejected ==
    \A p \in Procs :
        /\ (pc[p] # "idle" /\ IsStr(request[p]) /\ FewSegments(Path(p))) =>
            /\ pc[p] \in {"parse", "done"}
            /\ calls[p] = <<>>
            /\ Done(p) =>
                /\ Status(p) = 400 /\ resp[p].kind = "error"
                /\ resp[p].text = "Invalid configuration path: "
                /\ resp[p].exc.type = "IndexError"
        /\ Status(p) = 400 => calls[p] = <<>>

\* C6 witness: a two-segment conf_path has been answered
C6_Witness ==
    /\ Done(1) /\ IsStr(request[1])
    /\ Cardinality(Slashes(Path(1))) = 1
    /\ Status(1) = 400

\* C7 (as claimed): a conf_path with no path segment after the container
\* (scheme://container, scheme://container/) fails path parsing: status 400
\* and no config fetch; parsing succeeds only with a non-empty object key.
C7_NoKeyRejected ==
    \A p \in Procs :
        /\ (Parsed(p) /\ IsStr(request[p]) /\ NoKeySegment(Path(p))) =>
                Status(p) = 400 /\ ~Made(p, "config_fetch")
        /\ (Parsed(p) /\ Status(p) # 400) => frame[p].conf_file_name # <<>>

\* C7 (amended): path parsing fails, with status 400, exactly for a missing
\* conf_path, fewer than three segments or an empty third segment.  A
\* conf_path with no path segment after the container is accepted: the
\* container is extracted, the object key is what follows the first
\* occurrence of the container name with leading slashes removed (the empty
\* string when the scheme does not contain the container name), the config
\* fetch is attempted with that key, and the response is 500 when it fails.
C7_NoKeyAccepted ==
    \A p \in Procs :
        /\ Status(p) = 400 <=>
                /\ Done(p)
                /\ \/ ~IsStr(request[p])
                   \/ FewSegments(Path(p))
                   \/ ThirdSegmentEmpty(Path(p))
        /\ (Parsed(p) /\ IsStr(request[p]) /\ NoKeySegment(Path(p))) =>
            /\ Status(p) # 400
            /\ frame[p].bucket_name = ContainerOf(Path(p))
            /\ Occurrences(SchemeOf(Path(p)), ContainerOf(Path(p))) = {} =>
                    frame[p].conf_file_name = <<>>
            /\ Done(p) =>
                /\ Made(p, "config_fetch")
                /\ calls[p][1].args = <<frame[p].bucket_name, frame[p].conf_file_name>>
                /\ ~calls[p][1].ok => Status(p) = 500

\* C7 witness: a conf_path of the form scheme://container/ was parsed to an
\* empty key and its config fetch was attempted
C7_Witness ==
    /\ Done(1) /\ IsStr(request[1]) /\ NoKeySegment(Path(1))
    /\ Path(1)[Len(Path(1))] = "/"
    /\ frame[1].conf_file_name = <<>>
    /\ Made(1, "config_fetch") /\ Status(1) = 500

\* the object p's conf_path names is a JSON object lacking a required field
ConfigKey(p) == Key(frame[p].bucket_name, frame[p].conf_file_name)
ConfigLacksField(p) ==
    /\ Parsed(p) /\ Status(p) # 400
    /\ ConfigKey(p) \in DOMAIN store
    /\ store[ConfigKey(p)][1] = "obj"
    /\ DOMAIN store[ConfigKey(p)][2] # FieldSet
\* the first required field, in the order the code reads them, that is absent
FirstMissing(p) ==
    Min({i \in 1..Len(Fields) : Fields[i] \notin DOMAIN store[ConfigKey(p)][2]})
SecretCalls(p) == Cardinality({i \in 1..Len(calls[p]) : calls[p][i].op = "secret"})
LaterStageOps == {"read", "import", "encrypt", "write"}

\* C8 (as claimed): a config object lacking any required field fails in the
\* LoadingConfig stage with status 500: no secret is resolved and no source
\* read, encryption or write is performed.
C8_MissingFieldFailsAtLoad ==
    \A p \in Procs :
        ConfigLacksField(p) =>
            /\ pc[p] \in {"fetch_conf", "done"}
            /\ \A i \in 1..Len(calls[p]) : calls[p][i].op = "config_fetch"
            /\ Done(p) => Status(p) = 500

\* C8 (amended): a config object lacking required fields fails with a
\* configuration error (status 500) and no source read, key import,
\* encryption or write.  The absent field is found when it is first read, in
\* the order gpg_public_key, gcs_bucket, recipient_name, file_name,
\* file_path, encrypted_file_path: the secrets named by the fields before
\* the first absent one are resolved first, and no others.
C8_MissingFieldFailsWhenRead ==
    \A p \in Procs :
        ConfigLacksField(p) =>
            LET first == FirstMissing(p)
                before == IF first > 3 THEN 3 ELSE first - 1
            IN  /\ pc[p] \in {"fetch_conf", "secret_gpg_public_key", "secret_gcs_bucket",
                              "secret_recipient_name", "fields", "done"}
                /\ \A i \in 1..Len(calls[p]) : calls[p][i].op \notin LaterStageOps
                /\ SecretCalls(p) <= before
                /\ Done(p) =>
                    /\ Status(p) = 500
                    /\ resp[p].text = "Failed to fetch configuration or secrets: "
                    /\ ~HasFailedCall(p) =>
                        /\ resp[p].exc = KeyError(Fields[first])
                        /\ SecretCalls(p) = before

\* C8 witness: the config lacks file_name; the three secrets were resolved
\* before the KeyError ended the invocation
C8_Witness ==
    /\ ConfigLacksField(1) /\ Done(1)
    /\ FirstMissing(1) = 4
    /\ resp[1].exc = KeyError("file_name")
    /\ SecretCalls(1) = 3 /\ ~HasFailedCall(1)

\* p handed the engine key material that holds no key
ImportedBadKey(p) ==
    \E i \in 1..Len(calls[p]) :
        /\ calls[p][i].op = "import" /\ calls[p][i].ok
        /\ calls[p][i].args[1] \notin ValidKeyMaterial

\* C9 (as claimed): when the supplied key material fails to import, the
\* encryption stage fails with an encryption error and no destination write
\* occurs, whatever keys the engine's keyring already holds.
C9_BadKeyMaterialFails ==
    \A p \in Procs :
        ImportedBadKey(p) =>
            /\ pc[p] \in {"encrypt", "done"}
            /\ ~Made(p, "write")
            /\ Done(p) => (Status(p) = 500 /\ resp[p].text = "Encryption failed: ")

\* C10: when the engine reports failure for the encrypt call (ok false) the
\* invocation ends with status 500 and the encryption error, whose
\* description carries the engine's stderr, and no write is attempted.
C10_EngineFailureReported ==
    \A p \in Procs :
        (Made(p, "encrypt") /\ ~frame[p].encrypted_data.ok) =>
            /\ Done(p) /\ Status(p) = 500
            /\ resp[p].kind = "error" /\ resp[p].text = "Encryption failed: "
            /\ resp[p].exc.type = "ValueError"
            /\ resp[p].exc.diag = frame[p].encrypted_data.stderr
            /\ resp[p].exc.diag.text # ""
            /\ LastCall(p).op = "encrypt" /\ ~LastCall(p).ok
            /\ ~Made(p, "write")

\* C10 witness: the engine had no key for the recipient; the response
\* carries its diagnostic
C10_Witness ==
    /\ Done(1) /\ Made(1, "encrypt") /\ ~frame[1].encrypted_data.ok
    /\ resp[1].exc.diag =
            [text |-> "gpg: skipped: No public key", about |-> frame[1].recipient_name]
    /\ Done(2) /\ Made(2, "encrypt") /\ ~frame[2].encrypted_data.ok
    /\ resp[2].exc.diag.text = "gpg: encryption failed"

\* p's source read addressed an object the store does not hold
SourceAbsent(p) ==
    \E i \in 1..Len(calls[p]) :
        /\ calls[p][i].op = "read"
        /\ Key(calls[p][i].args[1], calls[p][i].args[2]) \notin DOMAIN store

\* C11 (as claimed): an absent source object ends the invocation with status
\* 500 and a transfer-failure outcome, distinct from the outcome reported
\* for engine failures; no key import, encryption or write occurs.
C11_AbsentSourceIsTransferError ==
    \A p \in Procs :
        SourceAbsent(p) =>
            /\ Done(p) /\ Status(p) = 500
            /\ resp[p].text # "Encryption failed: "
            /\ ~Made(p, "import") /\ ~Made(p, "encrypt") /\ ~Made(p, "write")

\* C11 (amended): an absent source object ends the invocation with status
\* 500 and no key import, encryption or write.  The response is the one
\* engine failures get, "Encryption failed: <e>"; the read failure shows
\* only in <e>, the store's error naming the bucket and path, and in the
\* log entry of the failed read.
C11_AbsentSourceFails ==
    \A p \in Procs :
        SourceAbsent(p) =>
            /\ Done(p) /\ Status(p) = 500
            /\ resp[p].kind = "error" /\ resp[p].text = "Encryption failed: "
            /\ resp[p].exc.type \in {"NotFound", "ServiceUnavailable"}
            /\ resp[p].exc.args = LastCall(p).args
            /\ LastCall(p).op = "read" /\ ~LastCall(p).ok
            /\ ~Made(p, "import") /\ ~Made(p, "encrypt") /\ ~Made(p, "write")
            /\ \E e \in log :
                /\ e.level = "ERROR" /\ e.msg = "Failed to read file from bucket: "
                /\ e.exc = resp[p].exc

\* C11 witness: the source named by the config is not in the bucket and the
\* store answered not-found
C11_Witness ==
    /\ SourceAbsent(1) /\ Done(1)
    /\ resp[1].exc.type = "NotFound"
    /\ resp[1].exc.args = <<DataBucket, <<"i", "/", "z">>>>

\* the plaintext the gcs_bucket secret of p's config resolves to
WorkingContainer(p) == SecretPayload(StrOf(frame[p].conf.gcs_bucket))

\* C12: in every invocation that reaches the write stage the source is read
\* at exactly file_path + file_name and the destination written at exactly
\* encrypted_file_path + file_name + ".asc", both in the container the
\* gcs_bucket secret resolves to and never in the one parsed from conf_path.
C12_PathsAndContainer ==
    \A p \in Procs : \A i \in 1..Len(calls[p]) :
        Made(p, "write") =>
            /\ calls[p][i].op = "read" =>
                /\ calls[p][i].args[1] = WorkingContainer(p)
                /\ calls[p][i].args[1] # frame[p].bucket_name
                /\ calls[p][i].args[2] =
                       StrOf(frame[p].conf.file_path)
                           \o StrOf(frame[p].conf.file_name)
            /\ calls[p][i].op = "write" =>
                /\ calls[p][i].args[1] = WorkingContainer(p)
                /\ calls[p][i].args[1] # frame[p].bucket_name
                /\ calls[p][i].args[2] =
                       StrOf(frame[p].conf.encrypted_file_path)
                           \o StrOf(frame[p].conf.file_name)
                           \o <<".", "a", "s", "c">>
                /\ calls[p][i].ok =>
                       Key(calls[p][i].args[1], calls[p][i].args[2])
                           \in DOMAIN store

\* C12 witness: config a read d/i/f and wrote d/o/f.asc while the config
\* itself came from container c
C12_Witness ==
    /\ Status(1) = 200
    /\ frame[1].bucket_name = ConfBucket
    /\ \E i \in 1..Len(calls[1]) :
           /\ calls[1][i].op = "read"
           /\ calls[1][i].args = <<DataBucket, <<"i", "/", "f">>>>
    /\ LastCall(1).op = "write"
    /\ LastCall(1).args = <<DataBucket, <<"o", "/", "f", ".", "a", "s", "c">>>>

\* the keyring p's encryption would find had p run alone from the initial
\* state: empty but for the key p itself imported
KeyringAlone(p) == ImportKeys({}, frame[p].gpg_public_key)

\* C13 (as claimed): invocations are independent under every interleaving;
\* in particular whether p's encryption succeeds, and the key its payload is
\* encrypted to, are what they would be had p run alone: the keys other
\* invocations left in the process-wide keyring play no part.
C13_InvocationsIndependent ==
    \A p \in Procs :
        Made(p, "encrypt") =>
            /\ frame[p].encrypted_data.ok =>
                \E k \in KeysFor(KeyringAlone(p), frame[p].recipient_name) :
                    frame[p].encrypted_data.data =
                        Cipher(frame[p].data_to_encrypt, k)
            /\ KeysFor(KeyringAlone(p), frame[p].recipient_name) = {} =>
                /\ ~frame[p].encrypted_data.ok
                /\ Status(p) # 200

\* log entries (arguments and the exception rendered in them) that spell a
\* resolved secret value
SecretPlaintexts == {SecretPayload(id) : id \in SecretIds}
LeakingEntries ==
    {e \in log :
        \/ \E i \in 1..Len(e.args) : e.args[i] \in SecretPlaintexts
        \/ \E i \in 1..Len(e.exc.args) : e.exc.args[i] \in SecretPlaintexts}

\* C14 (as claimed): no plaintext secret value (key material, the container
\* name resolved from gcs_bucket, the resolved recipient) appears in any log
\* entry, on success or failure paths.
C14_NoSecretInLog == LeakingEntries = {}

\* how many times p attempted the external call op
Attempts(p, op) == Cardinality({i \in 1..Len(calls[p]) : calls[p][i].op = op})
SingleCallOps == {"config_fetch", "read", "import", "encrypt", "write"}
\* the fields of the config that name secrets
SecretFields == {"gpg_public_key", "gcs_bucket", "recipient_name"}

\* C15: no retries.  Each external call (the config fetch, the fetch of each
\* of the three secrets, the source read, the key import, the encryption,
\* the destination write) is attempted at most once per invocation and
\* exactly once in a successful one; a failed call is the invocation's last
\* call and its failure is the error of the response.
C15_NoRetries ==
    \A p \in Procs :
        /\ \A op \in SingleCallOps : Attempts(p, op) <= 1
        /\ Attempts(p, "secret") <= Cardinality(SecretFields)
        /\ \A i, j \in 1..Len(calls[p]) :
              (i # j /\ calls[p][i].op = calls[p][j].op) =>
                  calls[p][i].args # calls[p][j].args
        /\ Status(p) = 200 =>
              /\ \A op \in SingleCallOps : Attempts(p, op) = 1
              /\ Attempts(p, "secret") = Cardinality(SecretFields)
              /\ ~HasFailedCall(p)
        /\ \A i \in 1..Len(calls[p]) :
              ~calls[p][i].ok =>
                  /\ i = Len(calls[p])
                  /\ Done(p) /\ Status(p) = 500 /\ resp[p].kind = "error"
                  /\ calls[p][i].op \in {"config_fetch", "secret", "read", "write"}
                        => resp[p].exc.args = calls[p][i].args
                  /\ calls[p][i].op = "import" => resp[p].exc.type = "OSError"
                  /\ calls[p][i].op = "encrypt" => resp[p].exc.type = "ValueError"

\* C15 witness: one invocation succeeded with its eight calls, the other
\* failed at its second secret after two successful calls
C15_Witness ==
    /\ Status(1) = 200 /\ Len(calls[1]) = Len(PipelineOrder)
    /\ Done(2) /\ Len(calls[2]) = 3
    /\ LastCall(2).op = "secret" /\ ~LastCall(2).ok
    /\ resp[2].exc.args = LastCall(2).args

\* the handler of a received request keeps running and every external call
\* it makes returns: each statement of a started invocation is eventually
\* executed
FairSpec == Spec /\ \A p \in Procs : WF_vars(Pipeline(p))

\* C16: provided every external call returns, every invocation eventually
\* reaches one terminal state, Done (status 200, the success message) or
\* Failed (status 400 or 500, an error body), and takes no further step:
\* its response and its calls never change afterwards.
C16_Terminates ==
    /\ \A p \in Procs :
          (pc[p] # "idle") ~>
              /\ Done(p)
              /\ \/ Status(p) = 200 /\ resp[p].kind = "message"
                 \/ Status(p) \in {400, 500} /\ resp[p].kind = "error"
    /\ [][\A p \in Procs :
            Done(p) => /\ Done(p)'
                       /\ resp'[p] = resp[p]
                       /\ calls'[p] = calls[p]
                       /\ frame'[p] = frame[p]]_vars

\* C16 witness: both invocations have terminated, one in Done and one in
\* Failed
C16_Witness ==
    /\ Done(1) /\ Status(1) = 200 /\ resp[1].kind = "message"
    /\ Done(2) /\ Status(2) = 500 /\ resp[2].kind = "error"

\* the required fields (by position in Fields) that p's config holds as null
NullFields(p) ==
    {i \in 1..Len(Fields) : ~IsStr(store[ConfigKey(p)][2][Fields[i]])}
\* p has loaded a config that has the six fields, one of them null
ConfigHasNull(p) ==
    /\ Completed(p, "config_fetch")
    /\ store[ConfigKey(p)][1] = "obj"
    /\ DOMAIN store[ConfigKey(p)][2] = FieldSet
    /\ NullFields(p) # {}

\* C17 (as claimed): a config with a required field present but null is
\* rejected at config handling: the invocation fails with status 500 and the
\* configuration error, and attempts no source read, key import, encryption
\* or destination write.
C17_NullFieldRejectedAtConfig ==
    \A p \in Procs :
        ConfigHasNull(p) =>
            /\ ~Made(p, "read") /\ ~Made(p, "import")
            /\ ~Made(p, "encrypt") /\ ~Made(p, "write")
            /\ Done(p) =>
                /\ Status(p) = 500
                /\ resp[p].text = "Failed to fetch configuration or secrets: "

\* C17 (amended): a config with a null required field never succeeds and
\* never writes a destination, and ends with status 500, but where it fails
\* depends on the field.  A null secret identifier is looked up as the
\* secret named "None" and fails as a configuration error before the source
\* read.  A null file_name or file_path fails when the source path is built:
\* no read is attempted and the response is "Encryption failed".  A null
\* encrypted_file_path fails only when the destination path is built, after
\* the source was read, the key imported and the data encrypted, with
\* "Failed to store encrypted file".
C17_NullFieldFailsWhenUsed ==
    \A p \in Procs :
        ConfigHasNull(p) =>
            /\ Status(p) # 200 /\ ~Made(p, "write")
            /\ Done(p) => Status(p) = 500 /\ resp[p].kind = "error"
            /\ IF NullFields(p) \cap 1..3 # {}
               THEN /\ ~Made(p, "read") /\ ~Made(p, "import") /\ ~Made(p, "encrypt")
                    /\ Done(p) =>
                        /\ resp[p].text = "Failed to fetch configuration or secrets: "
                        /\ LastCall(p).op = "secret" /\ ~LastCall(p).ok
                        /\ Len(calls[p]) = 1 + Min(NullFields(p)) =>
                              LastCall(p).args = <<SecretName(PyNone)>>
               ELSE IF NullFields(p) \cap 4..5 # {}
               THEN /\ ~Made(p, "read") /\ ~Made(p, "import") /\ ~Made(p, "encrypt")
                    /\ (Done(p) /\ ~HasFailedCall(p)) =>
                        /\ resp[p].text = "Encryption failed: "
                        /\ resp[p].exc.type = "TypeError"
                        /\ SecretCalls(p) = 3
               ELSE (Done(p) /\ ~HasFailedCall(p)) =>
                        /\ resp[p].text = "Failed to store encrypted file: "
                        /\ resp[p].exc.type = "TypeError"
                        /\ Completed(p, "read") /\ Completed(p, "import")
                        /\ Completed(p, "encrypt")
                        /\ frame[p].encrypted_data.ok

\* C17 witness: encrypted_file_path is null; the source was read and
\* encrypted before the invocation failed at the destination path.  The
\* other invocation has a null gcs_bucket and failed looking up "None".
C17_Witness ==
    /\ ConfigHasNull(1) /\ NullFields(1) = {6}
    /\ Done(1) /\ Completed(1, "encrypt") /\ resp[1].exc.type = "TypeError"
    /\ ConfigHasNull(2) /\ NullFields(2) = {2}
    /\ Done(2) /\ LastCall(2).args = <<SecretName(PyNone)>>

\* the object the read stage of p addresses, once p's locals are strings
SourceKey(p) ==
    Key(frame[p].gcs_bucket, StrOf(frame[p].file_path) \o StrOf(frame[p].file_name))
\* the objects a step creates or changes
Modified == {k \in DOMAIN store' : k \notin DOMAIN store \/ store'[k] # store[k]}
Succeeds(p) == Status(p) = 0 /\ Status(p)' = 200

\* C18 (as claimed): an invocation modifies at most one stored object, the
\* destination, and only in a successful run; the source object at
\* file_path + file_name and the config object named by conf_path have the
\* same contents after the invocation as before, and a failed invocation
\* leaves the whole store unchanged.
C18_SourceAndConfigUnchanged ==
    [][/\ DOMAIN store \subseteq DOMAIN store'
       /\ Cardinality(Modified) <= 1
       /\ Modified # {} => \E p \in Procs : Succeeds(p) /\ Modified = {Destination(p)}
       /\ \A p \in Procs :
            /\ Succeeds(p) =>
                  /\ store'[SourceKey(p)] = store[SourceKey(p)]
                  /\ store'[ConfigKey(p)] = store[ConfigKey(p)]
            /\ (~Done(p) /\ Failed(p)') => store' = store]_vars

\* C18 (amended): an invocation modifies at most one stored object, the
\* destination at encrypted_file_path + file_name + ".asc" in the working
\* container, and only in the step that makes it successful; every other
\* object, and the whole store in a failed invocation, is unchanged.  The
\* source and the config object are unchanged unless the destination is the
\* same object, which a successful run then overwrites with the ciphertext.
C18_OnlyDestinationModified ==
    [][/\ DOMAIN store \subseteq DOMAIN store'
       /\ Cardinality(Modified) <= 1
       /\ Modified # {} => \E p \in Procs : Succeeds(p) /\ Modified = {Destination(p)}
       /\ \A p \in Procs :
            /\ Succeeds(p) =>
                  /\ SourceKey(p) # Destination(p) =>
                        store'[SourceKey(p)] = store[SourceKey(p)]
                  /\ ConfigKey(p) # Destination(p) =>
                        store'[ConfigKey(p)] = store[ConfigKey(p)]
                  /\ store'[Destination(p)] = frame[p].encrypted_data.data
            /\ (~Done(p) /\ Failed(p)') => store' = store]_vars

\* C18 witness: the config's source and destination are the same object,
\* ".asc.asc"; the successful invocation replaced the plaintext it read with
\* its ciphertext, and every other object is as it was
C18_Witness ==
    /\ Status(1) = 200
    /\ SourceKey(1) = Destination(1)
    /\ store[SourceKey(1)] = frame[1].encrypted_data.data
    /\ store[SourceKey(1)] # InitialStore[SourceKey(1)]
    /\ \A k \in DOMAIN InitialStore : k # SourceKey(1) => store[k] = InitialStore[k]
    /\ DOMAIN store = DOMAIN InitialStore

\* p's request came without a conf_path parameter
NoConfPath(p) == pc[p] # "idle" /\ ~IsStr(request[p])

\* C19: a request with no conf_path parameter is handled as a path-parsing
\* failure: the invocation answers status 400 with an error body and makes
\* no storage, secret or engine call.
C19_MissingConfPathIs400 ==
    \A p \in Procs :
        NoConfPath(p) =>
            /\ calls[p] = <<>>
            /\ pc[p] \in {"parse", "done"}
            /\ frame[p] = EmptyFrame
            /\ Done(p) =>
                /\ Status(p) = 400 /\ resp[p].kind = "error"
                /\ resp[p].text = "Invalid configuration path: "
                /\ resp[p].exc.type = "AttributeError"

\* C19 witness: the request without conf_path was answered 400 while the
\* other invocation went through its calls
C19_Witness ==
    /\ NoConfPath(1) /\ Done(1) /\ Status(1) = 400 /\ calls[1] = <<>>
    /\ Status(2) = 200

====
